---- MODULE Spec2Model ----
(***************************************************************************)
(* Model of gitflow-rs (src/src/lib.rs): the semver parser parse_semver,   *)
(* the renderer get_semver, and the resolution function                    *)
(* get_info_from_path with its nested build-number counter count_parents.  *)
(*                                                                         *)
(* Strings are sequences of one-character strings.  A u64 produced by the  *)
(* semver crate is kept as its canonical digit sequence (the crate has     *)
(* already rejected leading zeros and values above u64::MAX), so that the  *)
(* u64 -> u8 conversion is decided without 64-bit arithmetic.              *)
(***************************************************************************)
EXTENDS Integers, Sequences, FiniteSets, TLC

\* ------------------------------------------------------------------ bounds
MaxSmall    == 1      \* small component values 0..MaxSmall used in every position
MaxWide     == 300    \* one component at a time sweeps 0..MaxWide
MaxBranches == 3      \* entries yielded by the branch iterator
MaxCommits  == 3      \* commits in the repository graph
MaxParents  == 1      \* parents of one commit
MaxSegs     == 3      \* dot-separated segments of a prerelease label

\* ------------------------------------------------------- program constants
U8Max == 255
U64MaxDigits == <<"1","8","4","4","6","7","4","4","0","7","3","7","0","9","5","5","1","6","1","5">>

\* ------------------------------------------------------------- characters
Digits == <<"0","1","2","3","4","5","6","7","8","9">>

IsDigit(c) == \E i \in 1..10 : Digits[i] = c

DigitVal(c) == (CHOOSE i \in 1..10 : Digits[i] = c) - 1

Letters ==
  {"a","b","c","d","e","f","g","h","i","j","k","l","m","n","o","p","q","r","s","t","u","v","w","x","y","z",
   "A","B","C","D","E","F","G","H","I","J","K","L","M","N","O","P","Q","R","S","T","U","V","W","X","Y","Z"}

Drop(s, n) == SubSeq(s, n + 1, Len(s))

Take(s, n) == SubSeq(s, 1, n)

Ok(v) == [ok |-> TRUE, val |-> v]

Err(m, a) == [ok |-> FALSE, msg |-> m, arg |-> a]

\* ------------------------------------------------- types and their Display
SemverBase(x, y, z) == [major |-> x, minor |-> y, patch |-> z]

SemverRC(b, w) == [base |-> b, rc |-> w]

Production(b) == [kind |-> "Production", semver |-> b]

Alpha(s) == [kind |-> "Alpha", semver |-> s]

Development == [kind |-> "Development"]

Local == [kind |-> "Local"]

\* Display of an unsigned integer: decimal, no sign, no leading zeros.
RECURSIVE fmt_u8(_)
fmt_u8(n) == IF n < 10 THEN <<Digits[n + 1]>>
             ELSE fmt_u8(n \div 10) \o <<Digits[(n % 10) + 1]>>

fmt_SemverBase(b) ==
  <<"v">> \o fmt_u8(b.major) \o <<".">> \o fmt_u8(b.minor) \o <<".">> \o fmt_u8(b.patch)

\* slip: the format string is "v{}.{}.{}-rc{}", without the dot before the rc number
fmt_SemverRC_nodot(s) ==
  <<"v">> \o fmt_u8(s.base.major) \o <<".">> \o fmt_u8(s.base.minor) \o <<".">>
          \o fmt_u8(s.base.patch) \o <<"-","r","c">> \o fmt_u8(s.rc)

fmt_SemverRC(s) ==
  <<"v">> \o fmt_u8(s.base.major) \o <<".">> \o fmt_u8(s.base.minor) \o <<".">>
          \o fmt_u8(s.base.patch) \o <<"-","r","c",".">> \o fmt_u8(s.rc)

None == [some |-> FALSE]

Some(s) == [some |-> TRUE, val |-> s]

\* slip: the Alpha arm formats the base and drops the rc number
get_semver_base_only(v) ==
  CASE v.kind = "Production"  -> Some(fmt_SemverBase(v.semver))
    [] v.kind = "Alpha"       -> Some(fmt_SemverBase(v.semver.base))
    [] v.kind = "Development" -> None
    [] v.kind = "Local"       -> None

get_semver(v) ==
  CASE v.kind = "Production"  -> Some(fmt_SemverBase(v.semver))
    [] v.kind = "Alpha"       -> Some(fmt_SemverRC(v.semver))
    [] v.kind = "Development" -> None
    [] v.kind = "Local"       -> None

\* --------------------------------------------- semver crate: Version::parse
RECURSIVE DigitRun(_)
DigitRun(s) == IF s # <<>> /\ IsDigit(s[1]) THEN 1 + DigitRun(Tail(s)) ELSE 0

\* lexicographic "a > b" on digit sequences of equal length
RECURSIVE DigitsGreater(_, _)
DigitsGreater(a, b) ==
  IF a = <<>> THEN FALSE
  ELSE IF a[1] # b[1] THEN DigitVal(a[1]) > DigitVal(b[1])
  ELSE DigitsGreater(Tail(a), Tail(b))

ExceedsU64(ds) ==
  \/ Len(ds) > Len(U64MaxDigits)
  \/ Len(ds) = Len(U64MaxDigits) /\ DigitsGreater(ds, U64MaxDigits)

\* numeric_identifier: the longest run of digits; a run of two or more that
\* starts with 0 is a leading-zero error, an empty run is an error, a value
\* above u64::MAX is an overflow error.
numeric_identifier(input) ==
  LET len == DigitRun(input) IN
  IF len = 0 THEN Err("semver: unexpected character or end", <<>>)
  ELSE IF len > 1 /\ input[1] = "0" THEN Err("semver: leading zero", <<>>)
  ELSE IF ExceedsU64(Take(input, len)) THEN Err("semver: overflow", <<>>)
  ELSE Ok([value |-> Take(input, len), rest |-> Drop(input, len)])

dot(input) ==
  IF input # <<>> /\ input[1] = "." THEN Ok(Tail(input))
  ELSE Err("semver: expected dot", <<>>)

\* identifier: dot-separated segments of [0-9A-Za-z-]; acc and seg are the
\* accumulated and current segment lengths, nondigit the segment's flag.
RECURSIVE identifier_loop(_, _, _, _, _)
identifier_loop(input, isPre, acc, seg, nondigit) ==
  LET i == acc + seg + 1
      atEnd == i > Len(input)
      c == IF atEnd THEN "" ELSE input[i]
  IN
  IF ~atEnd /\ (c \in Letters \/ c = "-")
    THEN identifier_loop(input, isPre, acc, seg + 1, TRUE)
  ELSE IF ~atEnd /\ IsDigit(c)
    THEN identifier_loop(input, isPre, acc, seg + 1, nondigit)
  ELSE IF seg = 0
    THEN IF acc = 0 /\ c # "."
           THEN Ok([ident |-> <<>>, rest |-> input])
           ELSE Err("semver: empty segment", <<>>)
  ELSE IF isPre /\ seg > 1 /\ ~nondigit /\ input[acc + 1] = "0"
    THEN Err("semver: leading zero", <<>>)
  ELSE IF c = "."
    THEN identifier_loop(input, isPre, acc + seg + 1, 0, FALSE)
  ELSE Ok([ident |-> Take(input, acc + seg), rest |-> Drop(input, acc + seg)])

identifier(input, isPre) == identifier_loop(input, isPre, 0, 0, FALSE)

Version_tail(major, minor, patch, text) ==
  LET hasPre == text # <<>> /\ text[1] = "-"
      p == IF hasPre THEN identifier(Tail(text), TRUE)
           ELSE Ok([ident |-> <<>>, rest |-> text])
  IN
  IF ~p.ok THEN p
  ELSE IF hasPre /\ p.val.ident = <<>> THEN Err("semver: empty segment", <<>>)
  ELSE
    LET text2 == p.val.rest
        hasBuild == text2 # <<>> /\ text2[1] = "+"
        b == IF hasBuild THEN identifier(Tail(text2), FALSE)
             ELSE Ok([ident |-> <<>>, rest |-> text2])
    IN
    IF ~b.ok THEN b
    ELSE IF hasBuild /\ b.val.ident = <<>> THEN Err("semver: empty segment", <<>>)
    ELSE IF b.val.rest # <<>> THEN Err("semver: unexpected character after", <<>>)
    ELSE Ok([major |-> major, minor |-> minor, patch |-> patch,
             pre |-> p.val.ident, build |-> b.val.ident])

Version_parse(text) ==
  LET ma == numeric_identifier(text) IN
  IF ~ma.ok THEN ma ELSE
  LET d1 == dot(ma.val.rest) IN
  IF ~d1.ok THEN d1 ELSE
  LET mi == numeric_identifier(d1.val) IN
  IF ~mi.ok THEN mi ELSE
  LET d2 == dot(mi.val.rest) IN
  IF ~d2.ok THEN d2 ELSE
  LET pa == numeric_identifier(d2.val) IN
  IF ~pa.ok THEN pa ELSE
  Version_tail(ma.val.value, mi.val.value, pa.val.value, pa.val.rest)

\* ------------------------------------------------ std: integer conversions
RECURSIVE DecVal(_)
DecVal(ds) == IF ds = <<>> THEN 0
              ELSE 10 * DecVal(Take(ds, Len(ds) - 1)) + DigitVal(ds[Len(ds)])

\* slip: `as u8` instead of try_into(): the value modulo 256
RECURSIVE DecValMod256(_)
DecValMod256(ds) == IF ds = <<>> THEN 0
                    ELSE (10 * DecValMod256(Take(ds, Len(ds) - 1)) + DigitVal(ds[Len(ds)])) % 256

u64_as_u8(ds) == Ok(DecValMod256(ds))

\* u64 -> u8 (TryFrom): fails when the value is above u8::MAX.
u64_try_into_u8(ds) ==
  IF Len(ds) <= 3 /\ DecVal(ds) <= U8Max THEN Ok(DecVal(ds))
  ELSE Err("out of range integral type conversion attempted", <<>>)

\* str::parse::<u8>: optional '+', then one or more digits, checked.
RECURSIVE u8_digits(_, _)
u8_digits(s, acc) ==
  IF s = <<>> THEN Ok(acc)
  ELSE IF ~IsDigit(s[1]) THEN Err("invalid digit found in string", <<>>)
  ELSE IF acc * 10 + DigitVal(s[1]) > U8Max
    THEN Err("number too large to fit in target type", <<>>)
  ELSE u8_digits(Tail(s), acc * 10 + DigitVal(s[1]))

u8_from_str(s) ==
  IF s = <<>> THEN Err("cannot parse integer from empty string", <<>>)
  ELSE IF s = <<"+">> \/ s = <<"-">> THEN Err("invalid digit found in string", <<>>)
  ELSE IF s[1] = "+" THEN u8_digits(Tail(s), 0)
  ELSE u8_digits(s, 0)

\* str::split('.'): the segments between dots (always at least one).
RECURSIVE split_dot(_, _)
split_dot(s, cur) ==
  IF s = <<>> THEN <<cur>>
  ELSE IF s[1] = "." THEN <<cur>> \o split_dot(Tail(s), <<>>)
  ELSE split_dot(Tail(s), Append(cur, s[1]))

\* ------------------------------------------------------------ parse_semver
\* slip: the first segment is not compared with "rc"
parse_prerelease_any_label(base, pre) ==
  LET parts == split_dot(pre, <<>>)
  IN
  IF Len(parts) < 2 THEN Err("Expected rc.W at end of version", <<>>)
  ELSE
    LET rc == u8_from_str(parts[2]) IN
    IF ~rc.ok THEN rc ELSE Ok(Alpha(SemverRC(base, rc.val)))

\* slip: the first segment is compared with "rc" before the second is taken
parse_prerelease_first_checked_first(base, pre) ==
  LET parts == split_dot(pre, <<>>)
      first == parts[1]
  IN
  IF first # <<"r","c">> THEN Err("Unsupported prerelease", first)
  ELSE IF Len(parts) < 2 THEN Err("Expected rc.W at end of version", <<>>)
  ELSE
    LET rc == u8_from_str(parts[2]) IN
    IF ~rc.ok THEN rc ELSE Ok(Alpha(SemverRC(base, rc.val)))

parse_prerelease(base, pre) ==
  LET parts == split_dot(pre, <<>>)
      first == parts[1]
  IN
  IF Len(parts) < 2 THEN Err("Expected rc.W at end of version", <<>>)
  ELSE
    LET second == parts[2] IN
    IF first = <<"r","c">>
      THEN LET rc == u8_from_str(second) IN
           IF ~rc.ok THEN rc ELSE Ok(Alpha(SemverRC(base, rc.val)))
      ELSE Err("Unsupported prerelease", first)

parse_semver(semver) ==
  IF semver = <<>> \/ semver[1] # "v" THEN Err("Semver must start with a v", <<>>)
  ELSE
    LET version == Version_parse(Tail(semver)) IN
    IF ~version.ok THEN version
    ELSE IF version.val.build # <<>>
      THEN Err("Semver must not contain a build identifier", <<>>)
    ELSE
      LET major == u64_try_into_u8(version.val.major)
          minor == u64_try_into_u8(version.val.minor)
          patch == u64_try_into_u8(version.val.patch)
      IN
      IF ~major.ok THEN major
      ELSE IF ~minor.ok THEN minor
      ELSE IF ~patch.ok THEN patch
      ELSE
        LET base == SemverBase(major.val, minor.val, patch.val) IN
        IF version.val.pre = <<>> THEN Ok(Production(base))
        ELSE parse_prerelease(base, version.val.pre)


\* ============================================================ driver state
VARIABLES
  tcase,        \* the pieces the input text of parse_semver is written from
  semver,       \* parse_semver's argument
  value,        \* the VersionInfo get_semver is applied to
  parsed,       \* Option<Result<VersionInfo, Error>>: parse_semver's result
  rendered,     \* Option<Option<String>>: get_semver's result
  ppc,          \* position of the parse/render driver
  refs,         \* what repo.branches(None) yields, in order
  parents,      \* commit -> sequence of parent commits
  head,         \* the commit HEAD peels to
  pc,           \* position inside get_info_from_path
  enumerated,   \* the local `branches` has been collected
  branches,     \* the collected Vec<Branch>
  branch_name,  \* Option<String>
  build_number, \* Option<usize>
  outcome       \* how the call of get_info_from_path ended

parseVars == <<tcase, semver, value, parsed, rendered, ppc>>

infoVars == <<refs, parents, head, pc, enumerated, branches, branch_name, build_number, outcome>>

vars == <<tcase, semver, value, parsed, rendered, ppc,
          refs, parents, head, pc, enumerated, branches, branch_name, build_number, outcome>>

\* ------------------------------------------------------------ input texts
\* Decimal writer of the inputs (at most three digits), independent of fmt_u8.
Decimal(n) ==
  IF n < 10 THEN <<Digits[n + 1]>>
  ELSE IF n < 100 THEN <<Digits[(n \div 10) + 1], Digits[(n % 10) + 1]>>
  ELSE <<Digits[(n \div 100) + 1], Digits[((n \div 10) % 10) + 1], Digits[(n % 10) + 1]>>

Num(n) == [txt |-> Decimal(n), n |-> n]

Raw(t) == [txt |-> t, n |-> -1]

SmallNums == (0 .. MaxSmall) \cup {U8Max, U8Max + 1}

U64Overflow == <<"1","8","4","4","6","7","4","4","0","7","3","7","0","9","5","5","1","6","1","6">>

BadToks == { Raw(<<>>), Raw(<<"a">>), Raw(<<"0","1">>), Raw(U64Overflow), Raw(U64MaxDigits) }

CompToks == { Num(n) : n \in SmallNums } \cup BadToks

rcTok == Raw(<<"r","c">>)

betaTok == Raw(<<"b","e","t","a">>)

SegToks == { rcTok, betaTok, Raw(<<"r","c","x">>), Raw(<<"R","C">>), Raw(<<"x">>),
             Raw(<<"-","1">>), Raw(<<"1","x">>), Raw(<<"0","1">>), Raw(<<>>),
             Num(0), Num(1), Num(U8Max), Num(U8Max + 1) }

Suffixes == { <<>>, <<"+","b","5">>, <<"+">>, <<"_">> }

Prefixes == { <<"v">>, <<>>, <<"V">>, <<"v","v">> }

RECURSIVE Join(_)
Join(segs) == IF segs = <<>> THEN <<>>
              ELSE IF Len(segs) = 1 THEN segs[1].txt
              ELSE segs[1].txt \o <<".">> \o Join(Tail(segs))

Case(pfx, ma, mi, pa, pre, segs, sfx) ==
  [raw |-> FALSE, prefix |-> pfx, major |-> ma, minor |-> mi, patch |-> pa,
   pre |-> pre, segs |-> segs, suffix |-> sfx]

RawCase(t) == [raw |-> TRUE, prefix |-> t, major |-> Raw(<<>>), minor |-> Raw(<<>>),
               patch |-> Raw(<<>>), pre |-> FALSE, segs |-> <<>>, suffix |-> <<>>]

Text(c) ==
  IF c.raw THEN c.prefix
  ELSE c.prefix \o c.major.txt \o <<".">> \o c.minor.txt \o <<".">> \o c.patch.txt
       \o (IF c.pre THEN <<"-">> \o Join(c.segs) ELSE <<>>) \o c.suffix

\* every prefix, component token and suffix, with no label and with -rc.<small>
SmallCases ==
  \/ \E pfx \in Prefixes, ma \in CompToks, mi \in CompToks, pa \in CompToks, sfx \in Suffixes :
       tcase = Case(pfx, ma, mi, pa, FALSE, <<>>, sfx)
  \/ \E ma \in CompToks, mi \in CompToks, pa \in CompToks, w \in {Num(0), Num(1), Num(U8Max)} :
       tcase = Case(<<"v">>, ma, mi, pa, TRUE, <<rcTok, w>>, <<>>)

\* every label of up to MaxSegs segments on two valid bases
LabelCases ==
  \E b \in {<<1, 2, 3>>, <<0, 0, U8Max>>}, k \in 1 .. MaxSegs, sfx \in {<<>>, <<"+","b","5">>} :
    \E l \in [1..k -> SegToks] :
      tcase = Case(<<"v">>, Num(b[1]), Num(b[2]), Num(b[3]), TRUE, l, sfx)

\* one number at a time sweeps 0..MaxWide
WideCases ==
  \E w \in 0 .. MaxWide, p \in BOOLEAN :
    \/ tcase = Case(<<"v">>, Num(w), Num(2), Num(3), p, <<rcTok, Num(4)>>, <<>>)
    \/ tcase = Case(<<"v">>, Num(1), Num(w), Num(3), p, <<rcTok, Num(4)>>, <<>>)
    \/ tcase = Case(<<"v">>, Num(1), Num(2), Num(w), p, <<rcTok, Num(4)>>, <<>>)
    \/ tcase = Case(<<"v">>, Num(1), Num(2), Num(3), TRUE, <<rcTok, Num(w)>>, <<>>)

\* the strings of the unit tests that have no v2.3.4 shape
RawCases ==
  tcase \in { RawCase(<<"O","1">>), RawCase(<<>>), RawCase(<<"A">>), RawCase(<<"1",".","1">>),
              RawCase(<<"v">>), RawCase(<<"v","1">>), RawCase(<<"v","1",".">>) }

Cases == SmallCases \/ LabelCases \/ WideCases \/ RawCases

\* the VersionInfo values get_semver is applied to
SmallU8 == (0 .. MaxSmall) \cup {10, 100, U8Max}

Bases == { SemverBase(x, y, z) : x \in SmallU8, y \in SmallU8, z \in SmallU8 }
         \cup UNION { { SemverBase(w, 2, 3), SemverBase(1, w, 3), SemverBase(1, 2, w) } : w \in 0 .. U8Max }

Values == { Production(b) : b \in Bases }
          \cup { Alpha(SemverRC(b, w)) : b \in Bases, w \in SmallU8 }
          \cup { Alpha(SemverRC(SemverBase(1, 2, 3), w)) : w \in 0 .. U8Max }
          \cup { Development, Local }

\* ------------------------------------------------ idle values of each part
ParseIdle ==
  /\ tcase = RawCase(<<>>) /\ semver = <<>> /\ value = Local
  /\ parsed = None /\ rendered = None /\ ppc = "idle"

InfoIdle ==
  /\ refs = <<>> /\ parents = <<>> /\ head = 0 /\ pc = "idle" /\ enumerated = FALSE
  /\ branches = <<>> /\ branch_name = None /\ build_number = None
  /\ outcome = [kind |-> "Idle"]

\* ================================================= parse_semver, then render
InitParse ==
  /\ Cases
  /\ semver = Text(tcase)
  /\ value = Local /\ parsed = None /\ rendered = None
  /\ ppc = "parse"
  /\ InfoIdle

Parse ==
  /\ ppc = "parse"
  /\ parsed' = Some(parse_semver(semver))
  /\ ppc' = IF parsed'.val.ok THEN "render" ELSE "done"
  /\ value' = IF parsed'.val.ok THEN parsed'.val.val ELSE value
  /\ UNCHANGED <<tcase, semver, rendered>>
  /\ UNCHANGED infoVars

Render ==
  /\ ppc = "render"
  /\ rendered' = Some(get_semver(value))
  /\ ppc' = "done"
  /\ UNCHANGED <<tcase, semver, value, parsed>>
  /\ UNCHANGED infoVars

NextParse == Parse \/ Render

SpecParse == InitParse /\ [][NextParse]_vars

\* ================================================= get_semver, then reparse
InitRender ==
  /\ value \in Values
  /\ tcase = RawCase(<<>>) /\ semver = <<>>
  /\ parsed = None /\ rendered = None
  /\ ppc = "get_semver"
  /\ InfoIdle

GetSemver ==
  /\ ppc = "get_semver"
  /\ rendered' = Some(get_semver(value))
  /\ ppc' = IF rendered'.val.some THEN "reparse" ELSE "done"
  /\ UNCHANGED <<tcase, semver, value, parsed>>
  /\ UNCHANGED infoVars

Reparse ==
  /\ ppc = "reparse"
  /\ semver' = rendered.val.val
  /\ parsed' = Some(parse_semver(semver'))
  /\ ppc' = "done"
  /\ UNCHANGED <<tcase, value, rendered>>
  /\ UNCHANGED infoVars

NextRender == GetSemver \/ Reparse

SpecRender == InitRender /\ [][NextRender]_vars


\* ======================================================= get_info_from_path
BranchNames == {"develop", "feature/x"}

\* an item of the branch iterator: an error, or a branch and whether HEAD is on it
RefEntries == { [ok |-> FALSE, name |-> "", is_head |-> FALSE] }
              \cup { [ok |-> TRUE, name |-> n, is_head |-> h] : n \in BranchNames, h \in BOOLEAN }

RefLists == UNION { [1..k -> RefEntries] : k \in 0 .. MaxBranches }

Commits == 1 .. MaxCommits

\* parents are older commits, so the graph is acyclic
ParentLists(c) ==
  { ps \in UNION { [1..k -> 1 .. (c - 1)] : k \in 0 .. MaxParents } :
      \A i, j \in DOMAIN ps : i # j => ps[i] # ps[j] }

ParentListsOf == [c \in Commits |-> ParentLists(c)]

\* the newest commit can have every parent list an older one can
Graphs == { g \in [Commits -> ParentListsOf[MaxCommits]] :
              \A c \in Commits : g[c] \in ParentListsOf[c] }

ErrOut(m) == [kind |-> "Err", msg |-> m]

PanicOut(m) == [kind |-> "Panic", msg |-> m]

OkOut(i) == [kind |-> "Ok", info |-> i]

GitflowInfo(bn, v, h, n) ==
  [branch_name |-> bn, version |-> v, commit_hash |-> h, build_number |-> n]

InitInfo ==
  /\ refs \in RefLists
  /\ parents \in Graphs
  /\ head \in Commits
  /\ pc = "open"
  /\ enumerated = FALSE
  /\ branches = <<>>
  /\ branch_name = None
  /\ build_number = None
  /\ outcome = [kind |-> "Running"]
  /\ ParseIdle

Init == InitInfo

Return(o) == pc' = "done" /\ outcome' = o

\* git2::Repository::open(&path)?
Open ==
  /\ pc = "open"
  /\ \E ok \in BOOLEAN :
       IF ok THEN pc' = "head" /\ UNCHANGED outcome
       ELSE Return(ErrOut("git2: cannot open repository"))
  /\ UNCHANGED <<refs, parents, head, enumerated, branches, branch_name, build_number>>
  /\ UNCHANGED parseVars

\* repo.head()?
ReadHead ==
  /\ pc = "head"
  /\ \E ok \in BOOLEAN :
       IF ok THEN pc' = "peel" /\ UNCHANGED outcome
       ELSE Return(ErrOut("git2: cannot read HEAD"))
  /\ UNCHANGED <<refs, parents, head, enumerated, branches, branch_name, build_number>>
  /\ UNCHANGED parseVars

\* head.peel_to_commit()?
Peel ==
  /\ pc = "peel"
  /\ \E ok \in BOOLEAN :
       IF ok THEN pc' = "branches" /\ UNCHANGED outcome
       ELSE Return(ErrOut("git2: HEAD does not peel to a commit"))
  /\ UNCHANGED <<refs, parents, head, enumerated, branches, branch_name, build_number>>
  /\ UNCHANGED parseVars

\* filter_map: iterator errors are dropped, branches with is_head() are kept
at_head(entry) == entry.ok /\ entry.is_head

collect_branches(rs) == SelectSeq(rs, at_head)

\* repo.branches(None)?.filter_map(..).collect()
Enumerate ==
  /\ pc = "branches"
  /\ \E ok \in BOOLEAN :
       IF ok THEN /\ branches' = collect_branches(refs)
                  /\ enumerated' = TRUE
                  /\ pc' = "gate"
                  /\ UNCHANGED outcome
       ELSE /\ Return(ErrOut("git2: cannot list branches"))
            /\ UNCHANGED <<branches, enumerated>>
  /\ UNCHANGED <<refs, parents, head, branch_name, build_number>>
  /\ UNCHANGED parseVars

\* slip: the upper limit of the arity check is off by one
branch_gate_upto_two(bs) ==
  IF Len(bs) > 2 THEN Err("Commit on too many branches!", <<>>)
  ELSE IF Len(bs) = 0 THEN Err("Commit {commit_hash} on no branch", <<>>)
  ELSE Ok(bs[1])

branch_gate(bs) ==
  IF Len(bs) > 1 THEN Err("Commit on too many branches!", <<>>)
  ELSE IF Len(bs) = 0 THEN Err("Commit {commit_hash} on no branch", <<>>)
  ELSE Ok(bs[1])

Gate ==
  /\ pc = "gate"
  /\ LET g == branch_gate(branches) IN
       IF g.ok THEN pc' = "name" /\ UNCHANGED outcome
       ELSE Return(ErrOut(g.msg))
  /\ UNCHANGED <<refs, parents, head, enumerated, branches, branch_name, build_number>>
  /\ UNCHANGED parseVars

\* branch.name()?.unwrap(): an error is returned, a name that is not UTF-8 panics
Name ==
  /\ pc = "name"
  /\ \E r \in {"err", "not_utf8", "name"} :
       CASE r = "err"      -> Return(ErrOut("git2: cannot read branch name")) /\ UNCHANGED branch_name
         [] r = "not_utf8" -> Return(PanicOut("called Option::unwrap() on a None value"))
                              /\ UNCHANGED branch_name
         [] r = "name"     -> /\ branch_name' = Some(branch_gate(branches).val.name)
                              /\ pc' = "count"
                              /\ UNCHANGED outcome
  /\ UNCHANGED <<refs, parents, head, enumerated, branches, build_number>>
  /\ UNCHANGED parseVars

RECURSIVE count_parents(_), count_parents_loop(_, _)
count_parents_loop(ps, count) ==
  IF ps = <<>> THEN count
  ELSE count_parents_loop(Tail(ps), count + count_parents(ps[1]))

count_parents(commit) == count_parents_loop(parents[commit], 0)

Count ==
  /\ pc = "count"
  /\ build_number' = Some(count_parents(head))
  /\ pc' = "resolve"
  /\ UNCHANGED <<refs, parents, head, enumerated, branches, branch_name, outcome>>
  /\ UNCHANGED parseVars

\* let output = ""; parse_semver(output).unwrap_or_else(|_| panic!(..))
Resolve ==
  /\ pc = "resolve"
  /\ LET output == <<>>
         version == parse_semver(output)
     IN IF version.ok
          THEN Return(OkOut(GitflowInfo(branch_name.val, version.val, head, build_number.val)))
          ELSE Return(PanicOut("failed to parse semver: "))
  /\ UNCHANGED <<refs, parents, head, enumerated, branches, branch_name, build_number>>
  /\ UNCHANGED parseVars

Next == Open \/ ReadHead \/ Peel \/ Enumerate \/ Gate \/ Name \/ Count \/ Resolve

Spec == Init /\ [][Next]_vars


\* ================================================================== claims
\* ---- vocabulary of the claims about the input text
IsU8(tok) == tok.n \in 0 .. U8Max

NonNumeric(tok) == tok.txt = <<>> \/ \E i \in DOMAIN tok.txt : ~IsDigit(tok.txt[i])

Over255(tok) == tok.n > U8Max \/ tok = Raw(U64Overflow) \/ tok = Raw(U64MaxDigits)

ValidBase(c) ==
  ~c.raw /\ c.prefix = <<"v">> /\ IsU8(c.major) /\ IsU8(c.minor) /\ IsU8(c.patch)

ExpectedBase(c) == SemverBase(c.major.n, c.minor.n, c.patch.n)

CanonicalProduction(c) == ValidBase(c) /\ ~c.pre /\ c.suffix = <<>>

CanonicalAlpha(c) ==
  /\ ValidBase(c) /\ c.pre /\ c.suffix = <<>>
  /\ Len(c.segs) = 2 /\ c.segs[1] = rcTok /\ c.segs[2].n \in 1 .. U8Max

WellFormedSeg(tok) ==
  /\ tok.txt # <<>>
  /\ \A i \in DOMAIN tok.txt : IsDigit(tok.txt[i]) \/ tok.txt[i] \in Letters \/ tok.txt[i] = "-"
  /\ ~(Len(tok.txt) > 1 /\ tok.txt[1] = "0" /\ ~NonNumeric(tok))

\* vX.Y.Z-<label>: valid X.Y.Z, a well-formed label, nothing after it
Labelled(c) ==
  /\ ValidBase(c) /\ c.pre /\ c.suffix = <<>>
  /\ \A i \in DOMAIN c.segs : WellFormedSeg(c.segs[i])

MissingRcMsg == "Expected rc.W at end of version"

InvalidRcMsgs == { "cannot parse integer from empty string", "invalid digit found in string",
                   "number too large to fit in target type" }

IsUnsupported(r, first) == r = Err("Unsupported prerelease", first.txt)

IsMissingOrInvalidRc(r) == ~r.ok /\ (r.msg = MissingRcMsg \/ r.msg \in InvalidRcMsgs)

\* ---- vocabulary of the claims about the repository
HeadBranches == { i \in DOMAIN refs : refs[i].ok /\ refs[i].is_head }

RECURSIVE IsLinear(_)
IsLinear(c) == Len(parents[c]) = 0 \/ (Len(parents[c]) = 1 /\ IsLinear(parents[c][1]))

RECURSIVE Depth(_)
Depth(c) == IF parents[c] = <<>> THEN 0 ELSE 1 + Depth(parents[c][1])

\* C1: once get_info_from_path has read the name of the single branch at
\* head, the call ends with a result whose version is Development when the
\* name is "develop" and Local when the name is a feature-branch name.
C1_VersionKindByBranchName ==
  (pc = "done" /\ branch_name.some /\ branch_name.val \in {"develop", "feature/x"}) =>
     /\ outcome.kind = "Ok"
     /\ outcome.info.version =
          (IF branch_name.val = "develop" THEN Development ELSE Local)

\* C2: every finished call of get_info_from_path has returned Ok or Err; no
\* call ends in a panic.
C2_AlwaysReturns == pc = "done" => outcome.kind \in {"Ok", "Err"}

\* C3: after the branches at head are collected, zero of them ends the call
\* with the no-branch error, more than one with the too-many-branches error,
\* and only exactly one lets the call go on to the name, the build number
\* and the version; the branch name used is the name of that one branch.
C3_BranchGate ==
  enumerated =>
    /\ Len(branches) = Cardinality(HeadBranches)
    /\ (pc # "gate" /\ Cardinality(HeadBranches) = 0 =>
          pc = "done" /\ outcome = ErrOut("Commit {commit_hash} on no branch"))
    /\ (pc # "gate" /\ Cardinality(HeadBranches) > 1 =>
          pc = "done" /\ outcome = ErrOut("Commit on too many branches!"))
    /\ (pc \in {"name", "count", "resolve"} \/ branch_name.some \/ build_number.some =>
          Cardinality(HeadBranches) = 1)
    /\ (Cardinality(HeadBranches) = 1 /\ pc = "done" /\ outcome.kind = "Err" =>
          outcome.msg \notin {"Commit {commit_hash} on no branch", "Commit on too many branches!"})
    /\ (branch_name.some => \E i \in HeadBranches : branch_name.val = refs[i].name)

C3_Witness ==
  /\ pc = "resolve" /\ Len(refs) = 3
  /\ HeadBranches = {2}
  /\ refs[1].ok /\ refs[1].name # refs[2].name
  /\ branch_name = Some(refs[2].name)
  /\ build_number.some

\* C4: on a strictly linear history the build number is the number of
\* ancestors of the head commit.
C4_LinearDepth ==
  (build_number.some /\ IsLinear(head)) => build_number.val = Depth(head)

\* C5: a canonical "vX.Y.Z" parses to Production{X,Y,Z} and a canonical
\* "vX.Y.Z-rc.W" with W >= 1 parses to Alpha{{X,Y,Z},W}; get_semver of the
\* parsed value is the input text again.
C5_ParseRenderRoundTrip ==
  /\ (CanonicalProduction(tcase) /\ parsed.some =>
        parsed.val = Ok(Production(ExpectedBase(tcase))))
  /\ (CanonicalAlpha(tcase) /\ parsed.some =>
        parsed.val = Ok(Alpha(SemverRC(ExpectedBase(tcase), tcase.segs[2].n))))
  /\ ((CanonicalProduction(tcase) \/ CanonicalAlpha(tcase)) /\ ppc = "done" =>
        rendered = Some(Some(semver)))

C5_Witness ==
  /\ ppc = "done" /\ CanonicalAlpha(tcase)
  /\ tcase.major.n = U8Max /\ tcase.minor.n = 0 /\ tcase.patch.n = 1
  /\ tcase.segs[2].n = U8Max
  /\ rendered = Some(Some(semver))
  /\ Len(semver) = 15

\* C6: parse_semver fails on a text without the leading v, on a non-numeric
\* or missing major/minor/patch, on a build suffix after '+', on a label
\* whose first segment is not rc and is followed by a second one, and on an
\* rc segment that is not a number.
C6_NoLeadingV == semver = <<>> \/ semver[1] # "v"

C6_BadComponent ==
  ~tcase.raw /\ (NonNumeric(tcase.major) \/ NonNumeric(tcase.minor) \/ NonNumeric(tcase.patch))

C6_BuildSuffix == ~tcase.raw /\ tcase.suffix # <<>> /\ tcase.suffix[1] = "+"

C6_OtherLabel == tcase.pre /\ Len(tcase.segs) >= 2 /\ tcase.segs[1] # rcTok

C6_BadRc ==
  tcase.pre /\ Len(tcase.segs) >= 2 /\ tcase.segs[1] = rcTok /\ NonNumeric(tcase.segs[2])

C6_RejectedClasses ==
  (parsed.some /\ (C6_NoLeadingV \/ C6_BadComponent \/ C6_BuildSuffix \/ C6_OtherLabel \/ C6_BadRc))
    => ~parsed.val.ok

C6_Witness ==
  /\ ppc = "done" /\ ValidBase(tcase) /\ tcase.pre
  /\ tcase.segs = <<betaTok, Num(1)>> /\ tcase.suffix = <<>>
  /\ parsed.val = Err("Unsupported prerelease", betaTok.txt)

\* C7: a major, minor, patch or rc number above 255 makes parse_semver fail,
\* and every field of a parsed value is the number written in the text.
C7_RangeCheck ==
  /\ (parsed.some /\ ~tcase.raw /\
        (\/ Over255(tcase.major) \/ Over255(tcase.minor) \/ Over255(tcase.patch)
         \/ (tcase.pre /\ Len(tcase.segs) >= 2 /\ tcase.segs[1] = rcTok /\ Over255(tcase.segs[2])))
        => ~parsed.val.ok)
  /\ (parsed.some /\ parsed.val.ok =>
        LET v == parsed.val.val IN
        /\ ~tcase.raw
        /\ (v.kind = "Production" => v.semver = ExpectedBase(tcase))
        /\ (v.kind = "Alpha" => /\ v.semver.base = ExpectedBase(tcase)
                                /\ v.semver.rc = tcase.segs[2].n)
        /\ IsU8(tcase.major) /\ IsU8(tcase.minor) /\ IsU8(tcase.patch))

C7_Witness ==
  /\ ppc = "done" /\ ~tcase.raw /\ tcase.prefix = <<"v">>
  /\ tcase.major.n = U8Max + 1 /\ IsU8(tcase.minor) /\ IsU8(tcase.patch)
  /\ ~tcase.pre /\ tcase.suffix = <<>>
  /\ parsed.val = Err("out of range integral type conversion attempted", <<>>)

\* C8: every Alpha value parse_semver returns has rc >= 1.
C8_RcAtLeastOne ==
  (parsed.some /\ parsed.val.ok /\ parsed.val.val.kind = "Alpha") =>
     parsed.val.val.semver.rc >= 1

\* C9 as stated: on vX.Y.Z-<label> with a first segment other than rc the
\* error is the unsupported-prerelease one whatever follows, and the
\* missing-or-invalid-rc error needs the first segment to be rc.
C9_Original ==
  (parsed.some /\ Labelled(tcase)) =>
    /\ (tcase.segs[1] # rcTok => IsUnsupported(parsed.val, tcase.segs[1]))
    /\ (IsMissingOrInvalidRc(parsed.val) =>
          /\ tcase.segs[1] = rcTok
          /\ (Len(tcase.segs) = 1 \/ ~IsU8(tcase.segs[2])))

\* C9 amended: on vX.Y.Z-<label> with a well-formed label, a first segment
\* other than rc gives the unsupported-prerelease error naming it only when
\* a second segment follows; a label of one segment, rc or not, gives the
\* missing-rc error; the missing-or-invalid-rc error is produced only for a
\* one-segment label or for rc followed by something that is not an integer
\* in 0..255.
C9_PrereleaseClassification ==
  (parsed.some /\ Labelled(tcase)) =>
    /\ (tcase.segs[1] # rcTok /\ Len(tcase.segs) >= 2 =>
          IsUnsupported(parsed.val, tcase.segs[1]))
    /\ (Len(tcase.segs) = 1 => parsed.val = Err(MissingRcMsg, <<>>))
    /\ (tcase.segs[1] = rcTok /\ Len(tcase.segs) >= 2 /\ ~IsU8(tcase.segs[2]) =>
          ~parsed.val.ok /\ parsed.val.msg \in InvalidRcMsgs)
    /\ (IsMissingOrInvalidRc(parsed.val) =>
          \/ Len(tcase.segs) = 1
          \/ tcase.segs[1] = rcTok /\ ~IsU8(tcase.segs[2]))

C9_Witness ==
  /\ ppc = "done" /\ Labelled(tcase)
  /\ tcase.segs = <<betaTok>>
  /\ parsed.val = Err(MissingRcMsg, <<>>)

\* C10: for every Production or Alpha value with fields in 0..255,
\* get_semver gives a text and parse_semver of that text gives the value back.
C10_RenderParseRoundTrip ==
  value.kind \in {"Production", "Alpha"} =>
    /\ (rendered.some => rendered.val.some)
    /\ (ppc = "done" => parsed = Some(Ok(value)))

C10_Witness ==
  /\ ppc = "done"
  /\ value = Alpha(SemverRC(SemverBase(U8Max, 0, 10), 0))
  /\ parsed = Some(Ok(value))

====
